---- MODULE Spec2Model ----
(***************************************************************************)
(* AI extraction client of the inspection app: runInspection (media        *)
(* encoding, /extract with deadline and single retry, post-flight check,   *)
(* anomaly sanitization) and the useInspection hook that stores its        *)
(* outcome.  Strings that the code slices are sequences of tokens.         *)
(***************************************************************************)
EXTENDS Integers, Sequences, FiniteSets, TLC

VARIABLES
    calls,      \* runInspection invocations: CallIds -> call record
    isLoading,  \* useInspection: useState(false)
    result,     \* useInspection: useState<ExtractResponse | null>(null)
    error,      \* useInspection: useState<string | null>(null)
    audioOnly,  \* useInspection: useState(false)
    sanPc,      \* sanitizeAnomalies harness: "ready" | "returned" | "threw"
    sanIn,      \* sanitizeAnomalies harness: the anomalies argument
    sanImg,     \* sanitizeAnomalies harness: the imageWasSent argument
    sanOut,     \* sanitizeAnomalies harness: the returned array
    itemStates, \* InspectionContext: state.itemStates, item id -> item state
    shown,      \* ConfirmScreen: the roll-up computed by the last render
    storage,    \* AsyncStorage: storage key -> stored uri
    reader,     \* getAllVoiceNoteUrisForSession in progress, and what it returned
    clearer,    \* clearVoiceNotesForSession in progress
    ledger,     \* the uri last put under each (session, item), for comparison
    health      \* useHealthCheck: its state, its timer and the probes it started

vars == <<calls, isLoading, result, error, audioOnly, sanPc, sanIn, sanImg, sanOut,
          itemStates, shown, storage, reader, clearer, ledger, health>>
hookVars == <<isLoading, result, error, audioOnly>>
sanVars == <<sanPc, sanIn, sanImg, sanOut>>
aggVars == <<itemStates, shown>>
storeVars == <<storage, reader, clearer, ledger>>

\* ------------------------------------------------------------------ bounds
MaxAnomalies == 2
MaxSubmits == 2
MaxItems == 3

\* ------------------------------------------------------- JavaScript values
UNDEFINED == "<undefined>"
NULL == [null |-> TRUE]
NoError == [cls |-> "none", status |-> 0, message |-> ""]

CallIds == 1..MaxSubmits

\* ------------------------------------------------------ program constants
VALID_SEVERITIES == {"Critical", "Moderate", "Low"}
SingleAttempt == 2 - 1

\* for (let attempt = 0; attempt < 2; attempt++)
MAX_ATTEMPTS == 2

ApiError(status, message) == [cls |-> "ApiError", status |-> status, message |-> message]
JsError(cls, message) == [cls |-> cls, status |-> 0, message |-> message]

\* --------------------------------------------------------------- anomalies
\* the three enum values, and what a service may send instead of them
Severities == {"Critical", "Moderate", "Low", "BOGUS", "critical"}

Anomalies ==
    [severity : Severities,
     evidence_backed : BOOLEAN,
     technician_review_required : BOOLEAN,
     is_global_safety_override : BOOLEAN,
     segment_mismatch_flag : BOOLEAN]

\* anomalies.map(...) dereferences every entry: a null entry raises TypeError
sanitizeThrows(anomalies) == \E i \in 1..Len(anomalies) : anomalies[i] = NULL

sanitizeOneNoEnumGuard(a, imageWasSent) ==
    [a EXCEPT !.evidence_backed = IF imageWasSent THEN a.evidence_backed ELSE FALSE]

sanitizeOneNoReview(a, imageWasSent) ==
    [a EXCEPT !.severity = IF a.severity \notin VALID_SEVERITIES THEN "Low" ELSE a.severity,
              !.evidence_backed = IF imageWasSent THEN a.evidence_backed ELSE FALSE]

sanitizeOneNoParity(a, imageWasSent) ==
    LET bad == a.severity \notin VALID_SEVERITIES
    IN  [a EXCEPT !.severity = IF bad THEN "Low" ELSE a.severity,
                  !.technician_review_required =
                      IF bad THEN TRUE ELSE a.technician_review_required]

sanitizeOneFlipsEvidence(a, imageWasSent) ==
    LET bad == a.severity \notin VALID_SEVERITIES
    IN  [a EXCEPT !.severity = IF bad THEN "Low" ELSE a.severity,
                  !.technician_review_required =
                      IF bad THEN TRUE ELSE a.technician_review_required,
                  !.evidence_backed = IF imageWasSent THEN ~a.evidence_backed ELSE FALSE]

sanitizeOneOverwritesReview(a, imageWasSent) ==
    LET bad == a.severity \notin VALID_SEVERITIES
    IN  [a EXCEPT !.severity = IF bad THEN "Low" ELSE a.severity,
                  !.technician_review_required = bad,
                  !.evidence_backed = IF imageWasSent THEN a.evidence_backed ELSE FALSE]

sanitizeOne(a, imageWasSent) ==
    LET bad == a.severity \notin VALID_SEVERITIES
        severity == IF bad THEN "Low" ELSE a.severity
        techReview == IF bad THEN TRUE ELSE a.technician_review_required
        evidenceBacked == IF imageWasSent THEN a.evidence_backed ELSE FALSE
    IN  [a EXCEPT !.severity = severity,
                  !.technician_review_required = techReview,
                  !.evidence_backed = evidenceBacked]

sanitizeAnomaliesDropsInvalid(anomalies, imageWasSent) ==
    LET kept == SelectSeq(anomalies, LAMBDA a : a.severity \in VALID_SEVERITIES)
    IN  [i \in 1..Len(kept) |-> sanitizeOne(kept[i], imageWasSent)]

sanitizeAnomalies(anomalies, imageWasSent) ==
    [i \in 1..Len(anomalies) |-> sanitizeOne(anomalies[i], imageWasSent)]

\* ------------------------------------------------------------ local files
\* FileReader.readAsDataURL result of each readable local reference
DataUrlOf(uri) ==
    CASE uri = "file://audio.m4a" -> <<"data:audio/mp4;base64", ",", "QUJD">>
      [] uri = "file://empty.m4a" -> <<"data:audio/mp4;base64", ",">>
      [] uri = "file://photo.jpg" -> <<"data:image/jpeg;base64", ",", "/9j/">>
      [] OTHER                    -> <<>>

Readable(uri) == uri \in {"file://audio.m4a", "file://empty.m4a", "file://photo.jpg"}

RECURSIVE indexOf(_, _, _)
indexOf(s, tok, from) ==
    IF from > Len(s) THEN -1
    ELSE IF s[from] = tok THEN from - 1
    ELSE indexOf(s, tok, from + 1)

slice(s, start) == SubSeq(s, start + 1, Len(s))

\* toBase64: resolve(commaIdx >= 0 ? result.slice(commaIdx + 1) : result)
stripPrefix(dataUrl) ==
    LET commaIdx == indexOf(dataUrl, ",", 1)
    IN  IF commaIdx >= 0 THEN slice(dataUrl, commaIdx + 1) ELSE dataUrl

\* a reference that fetch(uri) cannot open rejects with fetch's TypeError; one
\* that opens but cannot be read rejects through reader.onerror
toBase64(uri) ==
    IF Readable(uri)
    THEN [ok |-> TRUE, value |-> stripPrefix(DataUrlOf(uri)), error |-> NoError]
    ELSE IF uri \in {"file://corrupt.m4a", "file://corrupt.jpg"}
    THEN [ok |-> FALSE, value |-> <<>>,
          error |-> JsError("Error", "Failed to read file as base64")]
    ELSE [ok |-> FALSE, value |-> <<>>,
          error |-> JsError("TypeError", "Network request failed")]

\* ------------------------------------------------------------ runInspection
NoBody == [none |-> TRUE]

IdleCall ==
    [pc |-> "idle", audioUri |-> UNDEFINED, imageUri |-> UNDEFINED, jobId |-> UNDEFINED,
     imageWasSent |-> FALSE, body |-> NoBody, attempt |-> 0, lastError |-> NoError,
     requests |-> <<>>, log |-> <<>>, timers |-> 0, value |-> NULL, error |-> NoError]

\* JavaScript truthiness of a string-or-undefined argument
Truthy(s) == s # UNDEFINED /\ s # ""

trim(s) == IF s \in {" ", "   "} THEN "" ELSE s

\* pre-flight: !audioUri || typeof audioUri !== "string" || audioUri.trim() === ""
preflightFails(audioUri) == ~Truthy(audioUri) \/ trim(audioUri) = ""

ok(status) == status >= 200 /\ status <= 299

Return(v) == [t |-> "return", value |-> v, error |-> NoError]
Throw(e) == [t |-> "throw", value |-> NULL, error |-> e]
Continue == [t |-> "continue", value |-> NULL, error |-> NoError]

handleResponse(resp) ==
    IF ~ok(resp.status) THEN Throw(ApiError(resp.status, resp.text))
    ELSE IF ~resp.json THEN Throw(JsError("SyntaxError", "JSON Parse error"))
    ELSE Return(resp.data)

\* post-flight: !result.inspection_output || !Array.isArray(...anomalies)
postflightFails(data) ==
    \/ "inspection_output" \notin DOMAIN data
    \/ "anomalies" \notin DOMAIN data.inspection_output

\* lines 274-281: a 502/504 response is retried on the first attempt only
retryOnResponse(attempt, status) == attempt = 0

retryOnErrorNever(attempt, err) == FALSE

retryOnErrorAnyStatus(attempt, err) == attempt = 0

\* lines 305-310: an ApiError 502/504 caught on the first attempt is retried
retryOnError(attempt, err) == attempt = 0 /\ (err.status = 502 \/ err.status = 504)

\* the try block of one attempt, from the settled fetchWithTimeout on
tryBlock(call, ev) ==
    IF ev.kind = "timeout" THEN Throw(ApiError(504, "Request timed out"))
    ELSE IF ev.kind = "network" THEN Throw(JsError("TypeError", "Network request failed"))
    ELSE IF ev.resp.status = 502 \/ ev.resp.status = 504
    THEN LET lastError == ApiError(ev.resp.status,
                              IF ev.resp.status = 502
                              THEN "Service temporarily unavailable"
                              ELSE "Processing took too long - try again")
         IN  IF retryOnResponse(call.attempt, ev.resp.status)
             THEN [Continue EXCEPT !.error = lastError]
             ELSE Throw(lastError)
    ELSE LET h == handleResponse(ev.resp)
         IN  IF h.t = "throw" THEN h
             ELSE IF postflightFails(h.value)
             THEN Throw(ApiError(500, "Malformed response: anomalies missing"))
             ELSE IF sanitizeThrows(h.value.inspection_output.anomalies)
             THEN Throw(JsError("TypeError", "Cannot read property 'severity' of null"))
             ELSE Return([h.value EXCEPT !.inspection_output.anomalies =
                             sanitizeAnomalies(@, call.imageWasSent)])

catchBlockStaleError(call, comp) ==
    IF comp.t = "return" /\ call.lastError # NoError THEN Throw(call.lastError)
    ELSE IF comp.t # "throw" THEN comp
    ELSE IF comp.error.cls = "ApiError" /\ retryOnError(call.attempt, comp.error)
    THEN [Continue EXCEPT !.error = comp.error]
    ELSE comp

catchBlockRetriesAnyError(call, comp) ==
    IF comp.t # "throw" THEN comp
    ELSE IF call.attempt = 0
            /\ (comp.error.cls # "ApiError" \/ retryOnError(call.attempt, comp.error))
    THEN [Continue EXCEPT !.error = comp.error]
    ELSE comp

\* the catch block: records an ApiError as lastError, retries or rethrows
catchBlock(call, comp) ==
    IF comp.t # "throw" THEN comp
    ELSE IF comp.error.cls = "ApiError" /\ retryOnError(call.attempt, comp.error)
    THEN [Continue EXCEPT !.error = comp.error]
    ELSE comp

\* fetchWithTimeout entered: the timer is registered and the request issued
issueFetch(call) ==
    [call EXCEPT !.pc = "fetch",
                 !.requests = Append(@, call.body),
                 !.timers = @ + 1]

settleAttemptTimerLeftOnError(call, ev) ==
    LET comp == catchBlock(call, tryBlock(call, ev))
        seen == [call EXCEPT !.log = Append(@, ev),
                             !.timers = IF ev.kind = "response" THEN @ - 1 ELSE @,
                             !.lastError = IF comp.error.cls = "ApiError"
                                           THEN comp.error ELSE @]
    IN  CASE comp.t = "return" -> [seen EXCEPT !.pc = "returned", !.value = comp.value]
          [] comp.t = "throw"  -> [seen EXCEPT !.pc = "threw", !.error = comp.error]
          [] OTHER ->
                IF call.attempt + 1 < MAX_ATTEMPTS
                THEN issueFetch([seen EXCEPT !.attempt = @ + 1])
                ELSE [seen EXCEPT !.pc = "threw",
                                  !.attempt = @ + 1,
                                  !.error = IF seen.lastError # NoError THEN seen.lastError
                                            ELSE ApiError(500, "Unknown error during inspection")]

\* one loop iteration settles: return, throw, or continue to the next attempt
settleAttempt(call, ev) ==
    LET comp == catchBlock(call, tryBlock(call, ev))
        seen == [call EXCEPT !.log = Append(@, ev),
                             !.timers = @ - 1,
                             !.lastError = IF comp.error.cls = "ApiError"
                                           THEN comp.error ELSE @]
    IN  CASE comp.t = "return" -> [seen EXCEPT !.pc = "returned", !.value = comp.value]
          [] comp.t = "throw"  -> [seen EXCEPT !.pc = "threw", !.error = comp.error]
          [] OTHER ->
                IF call.attempt + 1 < MAX_ATTEMPTS
                THEN issueFetch([seen EXCEPT !.attempt = @ + 1])
                ELSE [seen EXCEPT !.pc = "threw",
                                  !.attempt = @ + 1,
                                  !.error = IF seen.lastError # NoError THEN seen.lastError
                                            ELSE ApiError(500, "Unknown error during inspection")]

\* lines 254-272: job_id added, init built, first attempt issued
startAttempts(call) ==
    LET withJob == IF Truthy(call.jobId)
                   THEN [call EXCEPT !.body = @ @@ [job_id |-> call.jobId]]
                   ELSE call
    IN  issueFetch([withJob EXCEPT !.attempt = 0])

\* runInspection entered: pre-flight, then suspended in toBase64(audioUri)
invoke(audioUri, imageUri, jobId) ==
    LET call == [IdleCall EXCEPT !.audioUri = audioUri, !.imageUri = imageUri,
                                 !.jobId = jobId]
    IN  IF preflightFails(audioUri)
        THEN [call EXCEPT !.pc = "threw",
                  !.error = ApiError(400, "audioUri is required and must be a non-empty string")]
        ELSE [call EXCEPT !.pc = "audio"]

\* toBase64(audioUri) settles
audioEncoded(call) ==
    LET r == toBase64(call.audioUri)
        built == [call EXCEPT !.body = [audio_b64 |-> r.value, category |-> "auto"],
                              !.imageWasSent = Truthy(call.imageUri)]
    IN  IF ~r.ok THEN [call EXCEPT !.pc = "threw", !.error = r.error]
        ELSE IF Truthy(call.imageUri) THEN [built EXCEPT !.pc = "image"]
        ELSE startAttempts(built)

\* toBase64(imageUri) settles
imageEncoded(call) ==
    LET r == toBase64(call.imageUri)
    IN  IF ~r.ok THEN [call EXCEPT !.pc = "threw", !.error = r.error]
        ELSE startAttempts([call EXCEPT !.body = @ @@ [image_b64 |-> r.value]])

NoResp == [status |-> 0, text |-> "", json |-> FALSE, data |-> NULL]

RunInspection(c, audioUri, imageUri, jobId) ==
    /\ calls[c].pc = "idle"
    /\ calls' = [calls EXCEPT ![c] = invoke(audioUri, imageUri, jobId)]

AudioEncoded(c) ==
    /\ calls[c].pc = "audio"
    /\ calls' = [calls EXCEPT ![c] = audioEncoded(@)]

ImageEncoded(c) ==
    /\ calls[c].pc = "image"
    /\ calls' = [calls EXCEPT ![c] = imageEncoded(@)]

FetchResponds(c, resp) ==
    /\ calls[c].pc = "fetch"
    /\ calls' = [calls EXCEPT ![c] = settleAttempt(@, [kind |-> "response", resp |-> resp])]

\* the deadline fires: controller.abort() rejects the fetch with AbortError
FetchTimesOut(c) ==
    /\ calls[c].pc = "fetch"
    /\ calls[c].timers > 0
    /\ calls' = [calls EXCEPT ![c] = settleAttempt(@, [kind |-> "timeout", resp |-> NoResp])]

\* no response reaches the client: fetch rejects on its own
FetchFails(c) ==
    /\ calls[c].pc = "fetch"
    /\ calls' = [calls EXCEPT ![c] = settleAttempt(@, [kind |-> "network", resp |-> NoResp])]

\* ------------------------------------------------------------ useInspection
NOMSG == "<null>"

\* the catch block of submit: the message shown for a rejected runInspection
errorMessage(err) ==
    IF err.cls = "ApiError"
    THEN CASE err.status = 502 -> "Service temporarily unavailable - please retry"
           [] err.status = 504 -> "Processing took too long - try again"
           [] OTHER -> err.message
    ELSE IF err.cls \in {"Error", "TypeError", "SyntaxError"} THEN err.message
    ELSE "An unexpected error occurred"

\* submissions take the call slots in order
NextCall(c) == calls[c].pc = "idle" /\ \A d \in CallIds : d < c => calls[d].pc # "idle"

\* submit up to its await: state reset, runInspection entered.  A pre-flight
\* rejection resumes submit in the same turn of the event loop, before any
\* other handler can run, so its catch and finally are part of this step.
Submit(c, audioUri, imageUri, jobId) ==
    LET k == invoke(audioUri, imageUri, jobId)
    IN  /\ NextCall(c)
        /\ result' = NULL
        /\ audioOnly' = ~Truthy(imageUri)
        /\ IF k.pc = "threw"
           THEN /\ isLoading' = FALSE
                /\ error' = errorMessage(k.error)
                /\ calls' = [calls EXCEPT ![c] = [k EXCEPT !.pc = "done"]]
           ELSE /\ isLoading' = TRUE
                /\ error' = NOMSG
                /\ calls' = [calls EXCEPT ![c] = k]

\* submit resumes after its await: setResult or setError, finally setIsLoading(false)
SubmitSettles(c) ==
    /\ calls[c].pc \in {"returned", "threw"}
    /\ IF calls[c].pc = "returned"
       THEN result' = calls[c].value /\ error' = error
       ELSE error' = errorMessage(calls[c].error) /\ result' = result
    /\ isLoading' = FALSE
    /\ audioOnly' = audioOnly
    /\ calls' = [calls EXCEPT ![c].pc = "done"]

reset ==
    /\ result' = NULL
    /\ error' = NOMSG
    /\ isLoading' = FALSE
    /\ audioOnly' = FALSE
    /\ calls' = calls

\* useMemo projections of the hook
hasCritical ==
    IF result = NULL THEN FALSE
    ELSE \E i \in 1..Len(result.inspection_output.anomalies) :
            LET a == result.inspection_output.anomalies[i]
            IN  a.severity = "Critical" \/ a.is_global_safety_override = TRUE

\* ------------------------------------------------------------ ConfirmScreen
\* the checklist items in CATEGORIES order
CategoryItems == <<"eng_1", "eng_2", "eng_3", "und_1", "und_2", "und_3",
                   "hyd_1", "hyd_2", "hyd_3", "cab_1", "cab_2", "cab_3">>

ItemOrder == SubSeq(CategoryItems, 1, MaxItems)
ItemIds == {ItemOrder[n] : n \in 1..MaxItems}

\* state.itemStates[id] of an item that has no entry
NoItem == [absent |-> TRUE]
\* null in a status slot
NoStatus == "<null>"
\* shown before the screen has rendered
NotRendered == [rendered |-> FALSE]

\* itemState.aiContext; a missing key and null are both falsy for the roll-up
aiContextOf(itemState) ==
    IF "aiContext" \in DOMAIN itemState THEN itemState.aiContext ELSE NULL

\* the `let` declarations the roll-up starts from
rollUpStart ==
    [globalSafetyOverride |-> FALSE, preliminaryStatus |-> "GO",
     technicianReview |-> FALSE, hasAiContext |-> FALSE, inspectionItems |-> <<>>]

nextStatusLastWins(preliminaryStatus, aiPreliminaryStatus) ==
    IF aiPreliminaryStatus = NoStatus THEN preliminaryStatus ELSE aiPreliminaryStatus

nextStatusCautionOverrides(preliminaryStatus, aiPreliminaryStatus) ==
    IF aiPreliminaryStatus = "STOP" THEN "STOP"
    ELSE IF aiPreliminaryStatus = "CAUTION" THEN "CAUTION"
    ELSE preliminaryStatus

\* the status assignment of one item: STOP sticks, CAUTION never lowers STOP
nextStatus(preliminaryStatus, aiPreliminaryStatus) ==
    IF aiPreliminaryStatus = "STOP" THEN "STOP"
    ELSE IF aiPreliminaryStatus = "CAUTION" /\ preliminaryStatus # "STOP" THEN "CAUTION"
    ELSE preliminaryStatus

\* the forEach callback body for an item that has a state
rollUpStep(acc, id, itemState) ==
    LET ctx == aiContextOf(itemState)
        aiPreliminaryStatus ==
            IF ctx # NULL /\ "preliminary_status" \in DOMAIN ctx /\ ctx.preliminary_status # ""
            THEN ctx.preliminary_status ELSE NoStatus
        isCritical ==
            IF ctx # NULL /\ "context_entries" \in DOMAIN ctx
            THEN \E n \in 1..Len(ctx.context_entries) :
                    ctx.context_entries[n].severity = "CRITICAL"
            ELSE FALSE
        reviewFlag ==
            ctx # NULL /\ "technician_review_flag" \in DOMAIN ctx /\ ctx.technician_review_flag
    IN  [globalSafetyOverride |-> acc.globalSafetyOverride \/ isCritical,
         preliminaryStatus |-> nextStatus(acc.preliminaryStatus, aiPreliminaryStatus),
         technicianReview |-> acc.technicianReview \/ reviewFlag,
         hasAiContext |-> acc.hasAiContext \/ ctx # NULL,
         inspectionItems |-> Append(acc.inspectionItems,
                                [id |-> id,
                                 aiPreliminaryStatus |-> aiPreliminaryStatus,
                                 globalSafetyOverridePresent |-> isCritical])]

\* the nested forEach over the items listed in order
RECURSIVE forEachItem(_, _, _)
forEachItem(states, order, acc) ==
    IF order = <<>> THEN acc
    ELSE LET id == Head(order)
             itemState == states[id]
         IN  forEachItem(states, Tail(order),
                         IF itemState # NoItem THEN rollUpStep(acc, id, itemState) ELSE acc)

rollUp(states, order) == forEachItem(states, order, rollUpStart)

\* ConfirmScreen renders: the roll-up of the current item states
ConfirmScreen ==
    /\ shown' = rollUp(itemStates, ItemOrder)
    /\ UNCHANGED itemStates

\* ------------------------------------------------------- InspectionContext
initialItemStates == [id \in ItemIds |-> NoItem]

updateItemStatusInPlace(itemId, status) ==
    /\ itemStates' = [itemStates EXCEPT ![itemId] = [status |-> status]]
    /\ shown' = shown

\* setState replaces the item's entry and the mounted screen renders again
updateItemStatus(itemId, status) ==
    /\ itemStates' = [itemStates EXCEPT ![itemId] = [status |-> status]]
    /\ shown' = rollUp(itemStates', ItemOrder)

\* the AI context of one item stored into its item state
updateItemAiContext(itemId, aiContext) ==
    LET currentItem == IF itemStates[itemId] = NoItem
                       THEN [status |-> NoStatus] ELSE itemStates[itemId]
    IN  /\ itemStates' = [itemStates EXCEPT ![itemId] =
                             [status |-> currentItem.status, aiContext |-> aiContext]]
        /\ shown' = rollUp(itemStates', ItemOrder)

resetInspection ==
    /\ itemStates' = initialItemStates
    /\ shown' = rollUp(itemStates', ItemOrder)

\* --------------------------------------------------------- voiceNoteStorage
\* identifiers and keys are strings, written as sequences of characters with
\* the fixed word "voiceNote" as one token
SessionIds == {<<"a">>, <<"a", ":", "b">>}
StoreItemIds == {<<"c">>, <<"d">>, <<"b", ":", "c">>}
Uris == {"u1", "u2"}

\* getItem / multiGet value of a key that holds nothing
NoUri == "<null>"

buildKey(sessionId, itemId) == <<"voiceNote", ":">> \o sessionId \o <<":">> \o itemId

StoreKeys == {buildKey(sid, iid) : sid \in SessionIds, iid \in StoreItemIds}

startsWith(str, prefix) ==
    Len(str) >= Len(prefix) /\ SubSeq(str, 1, Len(prefix)) = prefix

\* String.prototype.replace(pattern, ''): the first occurrence is removed
RECURSIVE replaceFirst(_, _, _)
replaceFirst(str, pattern, from) ==
    IF from + Len(pattern) - 1 > Len(str) THEN str
    ELSE IF SubSeq(str, from, from + Len(pattern) - 1) = pattern
    THEN SubSeq(str, 1, from - 1) \o SubSeq(str, from + Len(pattern), Len(str))
    ELSE replaceFirst(str, pattern, from + 1)

\* AsyncStorage.getAllKeys()
getAllKeys(store) == {k \in DOMAIN store : store[k] # NoUri}

\* allKeys.filter(k => k.startsWith(`voiceNote:${sessionId}:`))
sessionKeys(store, sessionId) ==
    {k \in getAllKeys(store) :
        startsWith(k, <<"voiceNote", ":">> \o sessionId \o <<":">>)}

\* multiGet, the null filter and the map to { itemId, uri }
pairsOf(store, keys, sessionId) ==
    {[itemId |-> replaceFirst(k, <<"voiceNote", ":">> \o sessionId \o <<":">>, 1),
      uri |-> store[k]] : k \in {x \in keys : store[x] # NoUri}}

\* reader: one getAllVoiceNoteUrisForSession call; seen is the history of the
\* completed writes since the call began (ledger: what was last put under each
\* (session, item) and not cleared since)
IdleReader == [pc |-> "idle", sessionId |-> <<>>, keys |-> {}, out |-> {}, seen |-> <<>>]
IdleClearer == [pc |-> "idle", sessionId |-> <<>>, keys |-> {}]

Reading == reader.pc = "multiGet"

\* storeVoiceNoteUri: AsyncStorage.setItem(buildKey(sessionId, itemId), uri)
storeVoiceNoteUri(sessionId, itemId, uri) ==
    /\ storage' = [storage EXCEPT ![buildKey(sessionId, itemId)] = uri]
    /\ ledger' = [ledger EXCEPT ![<<sessionId, itemId>>] = uri]
    /\ reader' = IF Reading THEN [reader EXCEPT !.seen = Append(@, ledger')] ELSE reader
    /\ UNCHANGED clearer

\* getAllVoiceNoteUrisForSession up to multiGet: keys listed and filtered;
\* with no key of the session the call returns [] at once
getAllBegins(sessionId) ==
    LET keys == sessionKeys(storage, sessionId)
    IN  /\ reader.pc \in {"idle", "done"}
        /\ reader' = [pc |-> IF keys = {} THEN "done" ELSE "multiGet",
                      sessionId |-> sessionId, keys |-> keys, out |-> {},
                      seen |-> <<ledger>>]
        /\ UNCHANGED <<storage, clearer, ledger>>

\* multiGet(sessionKeys) answers and the pairs are returned
getAllReturns ==
    /\ Reading
    /\ reader' = [reader EXCEPT !.pc = "done",
                                !.out = pairsOf(storage, reader.keys, reader.sessionId)]
    /\ UNCHANGED <<storage, clearer, ledger>>

\* clearVoiceNotesForSession up to multiRemove: keys listed and filtered
clearBegins(sessionId) ==
    LET keys == sessionKeys(storage, sessionId)
    IN  /\ clearer.pc = "idle"
        /\ clearer' = IF keys = {} THEN IdleClearer
                      ELSE [pc |-> "multiRemove", sessionId |-> sessionId, keys |-> keys]
        /\ ledger' = IF keys = {}
                     THEN [e \in DOMAIN ledger |-> IF e[1] = sessionId THEN NoUri ELSE ledger[e]]
                     ELSE ledger
        /\ UNCHANGED <<storage, reader>>

\* multiRemove(sessionKeys) done
clearRemoves ==
    /\ clearer.pc = "multiRemove"
    /\ storage' = [k \in DOMAIN storage |-> IF k \in clearer.keys THEN NoUri ELSE storage[k]]
    /\ ledger' = [e \in DOMAIN ledger |->
                     IF e[1] = clearer.sessionId THEN NoUri ELSE ledger[e]]
    /\ clearer' = IdleClearer
    /\ reader' = IF Reading THEN [reader EXCEPT !.seen = Append(@, ledger')] ELSE reader

\* ----------------------------------------------------------- useHealthCheck
MaxProbes == 3
ProbeIds == 1..MaxProbes

IdleProbe == [pc |-> "idle", resp |-> NULL, healthy |-> FALSE]

\* useState(false), useState(true), useState(null), useRef(null)
HealthOff ==
    health = [mounted |-> "no", isHealthy |-> FALSE, isLoading |-> TRUE,
              error |-> "<null>", timer |-> FALSE,
              probes |-> [p \in ProbeIds |-> IdleProbe]]

healthyLoose(r) ==
    "status" \in DOMAIN r /\ r.status = "ok"

\* result.status === "ok" && result.adapter_available === true
healthyOf(r) ==
    /\ "status" \in DOMAIN r /\ r.status = "ok"
    /\ "adapter_available" \in DOMAIN r /\ r.adapter_available = TRUE

\* check() up to `await healthCheck()`: setIsLoading(true), request issued
checkBegins(h, p) ==
    [h EXCEPT !.isLoading = TRUE, !.probes[p].pc = "fetch"]

\* catch (err) { setIsHealthy(false); setError(err.message) } finally { ... }
checkCatches(h, p, err) ==
    [h EXCEPT !.isHealthy = FALSE, !.error = err.message, !.isLoading = FALSE,
              !.probes[p] = [pc |-> "done", resp |-> NULL, healthy |-> FALSE]]

\* the try block after the await, then finally
checkResumes(h, p, r) ==
    IF r = NULL
    THEN checkCatches(h, p, JsError("TypeError", "Cannot read property 'status' of null"))
    ELSE LET healthy == healthyOf(r)
         IN  [h EXCEPT !.isHealthy = healthy, !.error = "<null>",
                       !.timer = IF healthy THEN FALSE ELSE @,
                       !.isLoading = FALSE,
                       !.probes[p] = [pc |-> "done", resp |-> NULL, healthy |-> healthy]]

\* useEffect: check(), then timerRef.current = setInterval(...)
Mount ==
    /\ health.mounted = "no"
    /\ health' = [checkBegins(health, 1) EXCEPT !.mounted = "yes", !.timer = TRUE]

\* the interval fires POLL_INTERVAL_MS = 30 s after the mount or the last tick.
\* A probe's fetch has ended by then, its deadline being DEFAULT_TIMEOUT_MS
\* = 15 s; reading the body happens after the deadline timer is cleared.
Tick(p) ==
    /\ health.timer
    /\ \A q \in ProbeIds : health.probes[q].pc # "fetch"
    /\ health.probes[p].pc = "idle"
    /\ \A q \in ProbeIds : q < p => health.probes[q].pc # "idle"
    /\ health' = checkBegins(health, p)

\* fetchWithTimeout resolves with a response, its timer is cleared
ProbeResponds(p, resp) ==
    /\ health.probes[p].pc = "fetch"
    /\ health' = [health EXCEPT !.probes[p].pc = "body", !.probes[p].resp = resp]

\* handleResponse: response.text() or response.json() settles
ProbeBodyRead(p) ==
    /\ health.probes[p].pc = "body"
    /\ LET o == handleResponse(health.probes[p].resp)
       IN  health' = IF o.t = "throw" THEN checkCatches(health, p, o.error)
                     ELSE checkResumes(health, p, o.value)

\* the deadline passes: AbortError becomes ApiError(504, "Request timed out")
ProbeTimesOut(p) ==
    /\ health.probes[p].pc = "fetch"
    /\ health' = checkCatches(health, p, ApiError(504, "Request timed out"))

ProbeFails(p) ==
    /\ health.probes[p].pc = "fetch"
    /\ health' = checkCatches(health, p, JsError("TypeError", "Network request failed"))

\* the effect's cleanup
Unmount ==
    /\ health.mounted = "yes"
    /\ health' = [health EXCEPT !.mounted = "gone", !.timer = FALSE]

\* -------------------------------------------------- sanitizeAnomalies harness
Sanitize ==
    /\ sanPc = "ready"
    /\ IF sanitizeThrows(sanIn)
       THEN sanPc' = "threw" /\ sanOut' = sanOut
       ELSE sanPc' = "returned" /\ sanOut' = sanitizeAnomalies(sanIn, sanImg)
    /\ UNCHANGED <<sanIn, sanImg>>

\* ------------------------------------------------------------------ inputs
RECURSIVE SeqsUpTo(_, _)
SeqsUpTo(S, n) ==
    IF n = 0 THEN {<<>>}
    ELSE LET shorter == SeqsUpTo(S, n - 1)
         IN  shorter \cup {Append(q, x) : q \in {r \in shorter : Len(r) = n - 1}, x \in S}

AudioUris == {UNDEFINED, "", "   ", "file://audio.m4a", "file://empty.m4a",
              "file://gone.m4a", "file://corrupt.m4a"}
ImageUris == {UNDEFINED, "", "file://photo.jpg", "file://gone.jpg"}
JobIds == {UNDEFINED, "job-1"}

Summary(status) ==
    [asset |-> "CAT D6N Dozer", status |-> status, overall_operational_impact |-> "impact"]

\* what a service may put in a 2xx body, around a given set of anomaly arrays
Bodies(anomalyArrays, statuses) ==
    {[context_path |-> "ctx"]}
    \cup {[context_path |-> "ctx",
           inspection_output |-> [inspection_summary |-> Summary(st)]] : st \in statuses}
    \cup {[context_path |-> "ctx",
           inspection_output |-> [anomalies |-> an]] : an \in anomalyArrays}
    \cup {[context_path |-> "ctx",
           inspection_output |-> [inspection_summary |-> Summary(st), anomalies |-> an]] :
             st \in statuses, an \in anomalyArrays}

Responses(httpStatuses, anomalyArrays, statuses) ==
    {[status |-> h, text |-> "detail", json |-> FALSE, data |-> NULL] : h \in httpStatuses}
    \cup {[status |-> h, text |-> "", json |-> TRUE, data |-> d] :
            h \in {x \in httpStatuses : ok(x)}, d \in Bodies(anomalyArrays, statuses)}

\* anomalies a service returns to the transport runs: the two fields the
\* sanitizer rewrites vary, and an entry may be null
RunAnomalies ==
    {a \in Anomalies : ~a.technician_review_required /\ ~a.is_global_safety_override
                       /\ ~a.segment_mismatch_flag} \cup {NULL}

RunResponses ==
    Responses({200, 404, 500, 502, 504}, SeqsUpTo(RunAnomalies, MaxAnomalies), {"pass", "fail"})

\* ----------------------------------------------------------- specifications
HookInit ==
    /\ isLoading = FALSE
    /\ result = NULL
    /\ error = NOMSG
    /\ audioOnly = FALSE

SanOff ==
    /\ sanPc = "off"
    /\ sanIn = <<>>
    /\ sanImg = FALSE
    /\ sanOut = <<>>

StoreOff ==
    /\ storage = [k \in StoreKeys |-> NoUri]
    /\ reader = IdleReader
    /\ clearer = IdleClearer
    /\ ledger = [e \in SessionIds \X StoreItemIds |-> NoUri]

AggOff ==
    /\ itemStates = initialItemStates
    /\ shown = NotRendered

\* one runInspection call against the network boundary
Init ==
    /\ calls = [c \in CallIds |-> IdleCall]
    /\ HookInit
    /\ StoreOff
    /\ HealthOff
    /\ SanOff
    /\ AggOff

Next ==
    \/ \E a \in AudioUris, i \in ImageUris, j \in JobIds :
          RunInspection(1, a, i, j) /\ UNCHANGED <<hookVars, sanVars, aggVars, storeVars, health>>
    \/ AudioEncoded(1) /\ UNCHANGED <<hookVars, sanVars, aggVars, storeVars, health>>
    \/ ImageEncoded(1) /\ UNCHANGED <<hookVars, sanVars, aggVars, storeVars, health>>
    \/ \E r \in RunResponses : FetchResponds(1, r) /\ UNCHANGED <<hookVars, sanVars, aggVars, storeVars, health>>
    \/ FetchTimesOut(1) /\ UNCHANGED <<hookVars, sanVars, aggVars, storeVars, health>>
    \/ FetchFails(1) /\ UNCHANGED <<hookVars, sanVars, aggVars, storeVars, health>>

Spec == Init /\ [][Next]_vars

\* sanitizeAnomalies applied to every bounded input
SanInit ==
    /\ calls = [c \in CallIds |-> IdleCall]
    /\ HookInit
    /\ StoreOff
    /\ HealthOff
    /\ AggOff
    /\ sanPc = "ready"
    /\ sanIn \in SeqsUpTo(Anomalies \cup {NULL}, MaxAnomalies)
    /\ sanImg \in BOOLEAN
    /\ sanOut = <<>>

SanNext == Sanitize /\ UNCHANGED <<calls, hookVars, aggVars, storeVars, health>>

SpecSanitize == SanInit /\ [][SanNext]_vars

\* overlapping submissions of one item through the useInspection hook
HookAudioUris == {"", "file://audio.m4a"}
HookImageUris == {UNDEFINED, "file://photo.jpg"}

HookAnomalies ==
    {[severity |-> "Critical", evidence_backed |-> TRUE, technician_review_required |-> FALSE,
      is_global_safety_override |-> FALSE, segment_mismatch_flag |-> FALSE]}

HookResponses == Responses({200, 500}, SeqsUpTo(HookAnomalies, 1), {"fail"})

HookNext ==
    \/ \E c \in CallIds, a \in HookAudioUris, i \in HookImageUris :
          Submit(c, a, i, UNDEFINED) /\ UNCHANGED <<sanVars, aggVars, storeVars, health>>
    \/ \E c \in CallIds : AudioEncoded(c) /\ UNCHANGED <<hookVars, sanVars, aggVars, storeVars, health>>
    \/ \E c \in CallIds : ImageEncoded(c) /\ UNCHANGED <<hookVars, sanVars, aggVars, storeVars, health>>
    \/ \E c \in CallIds, r \in HookResponses :
          FetchResponds(c, r) /\ UNCHANGED <<hookVars, sanVars, aggVars, storeVars, health>>
    \/ \E c \in CallIds : FetchTimesOut(c) /\ UNCHANGED <<hookVars, sanVars, aggVars, storeVars, health>>
    \/ \E c \in CallIds : FetchFails(c) /\ UNCHANGED <<hookVars, sanVars, aggVars, storeVars, health>>
    \/ \E c \in CallIds : SubmitSettles(c) /\ UNCHANGED <<sanVars, aggVars, storeVars, health>>
    \/ reset /\ UNCHANGED <<sanVars, aggVars, storeVars, health>>

SpecHook == Init /\ [][HookNext]_vars

\* the ConfirmScreen roll-up applied to every bounded set of item states
LegacyContexts ==
    {[preliminary_status |-> p, technician_review_flag |-> f, context_entries |-> e] :
        p \in {"STOP", "CAUTION", "GO"}, f \in BOOLEAN,
        e \in {<<[severity |-> "WARNING"]>>,
               <<[severity |-> "INFO"], [severity |-> "CRITICAL"]>>}}

LowAnomaly ==
    [severity |-> "Low", evidence_backed |-> TRUE, technician_review_required |-> FALSE,
     is_global_safety_override |-> FALSE, segment_mismatch_flag |-> FALSE]

ApiContexts ==
    {[inspection_output |-> [anomalies |-> a]] :
        a \in {<<>>,
               <<[LowAnomaly EXCEPT !.severity = "Critical"]>>,
               <<[LowAnomaly EXCEPT !.severity = "Moderate"]>>,
               <<[LowAnomaly EXCEPT !.is_global_safety_override = TRUE]>>,
               <<[LowAnomaly EXCEPT !.technician_review_required = TRUE]>>,
               <<[LowAnomaly EXCEPT !.segment_mismatch_flag = TRUE]>>}}

AiContexts == {NULL} \cup LegacyContexts \cup ApiContexts

ItemStatesOf(contexts) ==
    {NoItem, [status |-> "red"]}
        \cup {[status |-> st, aiContext |-> c] : st \in {NoStatus, "red"}, c \in contexts}

ConfirmInit ==
    /\ calls = [c \in CallIds |-> IdleCall]
    /\ HookInit
    /\ StoreOff
    /\ HealthOff
    /\ SanOff
    /\ itemStates \in [ItemIds -> {i \in ItemStatesOf(AiContexts) :
                                      i = NoItem \/ i.status = "red"}]
    /\ shown = NotRendered

ConfirmNext == ConfirmScreen /\ UNCHANGED <<calls, hookVars, sanVars, storeVars, health>>

SpecConfirm == ConfirmInit /\ [][ConfirmNext]_vars

\* one inspection session: results stored, overwritten and reset while the
\* ConfirmScreen is mounted
SessionContexts ==
    {NULL,
     [preliminary_status |-> "STOP", technician_review_flag |-> FALSE,
      context_entries |-> <<[severity |-> "WARNING"]>>],
     [preliminary_status |-> "CAUTION", technician_review_flag |-> TRUE,
      context_entries |-> <<[severity |-> "WARNING"]>>],
     [preliminary_status |-> "GO", technician_review_flag |-> FALSE,
      context_entries |-> <<[severity |-> "INFO"], [severity |-> "CRITICAL"]>>],
     [inspection_output |-> [anomalies |-> <<[LowAnomaly EXCEPT !.severity = "Critical"]>>]]}

SessionInit ==
    /\ calls = [c \in CallIds |-> IdleCall]
    /\ HookInit
    /\ StoreOff
    /\ HealthOff
    /\ SanOff
    /\ itemStates = initialItemStates
    /\ shown = rollUp(initialItemStates, ItemOrder)

SessionNext ==
    \/ \E id \in ItemIds :
          updateItemStatus(id, "red") /\ UNCHANGED <<calls, hookVars, sanVars, storeVars, health>>
    \/ \E id \in ItemIds, c \in SessionContexts :
          updateItemAiContext(id, c) /\ UNCHANGED <<calls, hookVars, sanVars, storeVars, health>>
    \/ resetInspection /\ UNCHANGED <<calls, hookVars, sanVars, storeVars, health>>

SpecSession == SessionInit /\ [][SessionNext]_vars

\* independent runInspection calls side by side, one failure each
ClassAudioUris == {"", "file://audio.m4a", "file://gone.m4a"}

ClassResponses == Responses({200, 400, 500, 504}, {<<>>}, {"pass"})

ClassNext ==
    \/ \E c \in CallIds, a \in ClassAudioUris :
          RunInspection(c, a, UNDEFINED, UNDEFINED) /\ UNCHANGED <<hookVars, sanVars, aggVars, storeVars, health>>
    \/ \E c \in CallIds : AudioEncoded(c) /\ UNCHANGED <<hookVars, sanVars, aggVars, storeVars, health>>
    \/ \E c \in CallIds, r \in ClassResponses :
          FetchResponds(c, r) /\ UNCHANGED <<hookVars, sanVars, aggVars, storeVars, health>>
    \/ \E c \in CallIds : FetchTimesOut(c) /\ UNCHANGED <<hookVars, sanVars, aggVars, storeVars, health>>
    \/ \E c \in CallIds : FetchFails(c) /\ UNCHANGED <<hookVars, sanVars, aggVars, storeVars, health>>

SpecClasses == Init /\ [][ClassNext]_vars

\* bulk reads interleaved with writes, identifiers without ':'
MaxWritesDuringRead == 2
ReadSessionIds == {<<"a">>}
ReadItemIds == {<<"c">>, <<"d">>}

StoreFrame == UNCHANGED <<calls, hookVars, sanVars, aggVars, health>>

StoreReadNext ==
    \/ \E sid \in ReadSessionIds, iid \in ReadItemIds, uri \in Uris :
           /\ Reading => Len(reader.seen) <= MaxWritesDuringRead
           /\ storeVoiceNoteUri(sid, iid, uri) /\ StoreFrame
    \/ \E sid \in ReadSessionIds : getAllBegins(sid) /\ StoreFrame
    \/ getAllReturns /\ StoreFrame

SpecStoreRead == Init /\ [][StoreReadNext]_vars

\* one caller, one operation at a time, identifiers that may contain ':'
ScopeItemIds == {<<"c">>, <<"b", ":", "c">>}
StoreQuiet == ~Reading /\ clearer.pc = "idle"

StoreScopeNext ==
    \/ \E sid \in SessionIds, iid \in ScopeItemIds, uri \in Uris :
           StoreQuiet /\ storeVoiceNoteUri(sid, iid, uri) /\ StoreFrame
    \/ \E sid \in SessionIds : StoreQuiet /\ getAllBegins(sid) /\ StoreFrame
    \/ getAllReturns /\ StoreFrame
    \/ \E sid \in SessionIds : StoreQuiet /\ clearBegins(sid) /\ StoreFrame
    \/ clearRemoves /\ StoreFrame

SpecStoreScope == Init /\ [][StoreScopeNext]_vars

\* /health answers of a service: HTTP status and body
HealthBodies ==
    {[status |-> st, adapter_available |-> av] : st \in {"ok", "error"}, av \in BOOLEAN}
    \cup {[status |-> "ok"], [adapter_available |-> TRUE], NULL}

HealthResponses ==
    {[status |-> 503, text |-> "detail", json |-> FALSE, data |-> NULL],
     [status |-> 200, text |-> "detail", json |-> FALSE, data |-> NULL]}
    \cup {[status |-> h, text |-> "", json |-> TRUE, data |-> d] :
            h \in {200, 503}, d \in HealthBodies}

HealthFrame == UNCHANGED <<calls, hookVars, sanVars, aggVars, storeVars>>

HealthNext ==
    \/ Mount /\ HealthFrame
    \/ \E p \in ProbeIds : Tick(p) /\ HealthFrame
    \/ \E p \in ProbeIds, r \in HealthResponses : ProbeResponds(p, r) /\ HealthFrame
    \/ \E p \in ProbeIds : ProbeBodyRead(p) /\ HealthFrame
    \/ \E p \in ProbeIds : ProbeTimesOut(p) /\ HealthFrame
    \/ \E p \in ProbeIds : ProbeFails(p) /\ HealthFrame
    \/ Unmount /\ HealthFrame

SpecHealth == Init /\ [][HealthNext]_vars

\* ------------------------------------------------------------- properties
Settled(k) == k.pc \in {"returned", "threw", "done"}

IsResponse(ev, statuses) == ev.kind = "response" /\ ev.resp.status \in statuses

\* a 2xx body that satisfies the documented response schema
ValidBody(resp) ==
    /\ resp.json
    /\ "inspection_output" \in DOMAIN resp.data
    /\ "inspection_summary" \in DOMAIN resp.data.inspection_output
    /\ "anomalies" \in DOMAIN resp.data.inspection_output
    /\ ~sanitizeThrows(resp.data.inspection_output.anomalies)

\* C1: a first attempt answered with HTTP 502 or 504 is followed by exactly one
\* further, identical request; after the second attempt settles the call is
\* over (no third request), and a second 502/504 reaches the caller as an
\* ApiError with that status.
C1_RetryExactlyOnce ==
    \A c \in CallIds :
        LET k == calls[c]
        IN  (Len(k.log) >= 1 /\ IsResponse(k.log[1], {502, 504})) =>
              /\ Len(k.requests) = 2
              /\ k.requests[2] = k.requests[1]
              /\ Len(k.log) <= 2
              /\ (Len(k.log) = 1 => k.pc = "fetch")
              /\ (Len(k.log) = 2 => Settled(k))
              /\ (Len(k.log) = 2 /\ IsResponse(k.log[2], {502, 504}) =>
                    /\ k.pc = "threw"
                    /\ k.error.cls = "ApiError"
                    /\ k.error.status = k.log[2].resp.status)

C1_Witness ==
    \E c \in CallIds :
        /\ Len(calls[c].log) = 2
        /\ IsResponse(calls[c].log[1], {502})
        /\ IsResponse(calls[c].log[2], {504})
        /\ calls[c].pc = "threw"
        /\ calls[c].error.status = 504

C3_TerminalStatusFailsImmediately ==
    \A c \in CallIds :
        LET k == calls[c]
        IN  \A n \in 1..Len(k.log) :
              (k.log[n].kind = "response" /\ ~ok(k.log[n].resp.status)
               /\ k.log[n].resp.status \notin {502, 504}) =>
                  /\ n = Len(k.log)
                  /\ Len(k.requests) = n
                  /\ k.pc = "threw"
                  /\ k.error.cls = "ApiError"
                  /\ k.error.status = k.log[n].resp.status

C3_Witness ==
    \E c \in CallIds :
        /\ Len(calls[c].log) = 2
        /\ IsResponse(calls[c].log[1], {504})
        /\ IsResponse(calls[c].log[2], {404})
        /\ calls[c].pc = "threw"
        /\ calls[c].error = ApiError(404, "detail")

\* C4: HTTP 502 on the first attempt puts exactly one retry in flight, and a
\* 200 with a valid body on that retry is returned to the caller (sanitized),
\* with no error and exactly two requests issued.
C4_RetryThenSuccess ==
    \A c \in CallIds :
        LET k == calls[c]
        IN  (Len(k.log) >= 1 /\ IsResponse(k.log[1], {502})) =>
              /\ (Len(k.log) = 1 => k.pc = "fetch" /\ Len(k.requests) = 2)
              /\ (Len(k.log) = 2 /\ IsResponse(k.log[2], {200}) /\ ValidBody(k.log[2].resp) =>
                    /\ k.pc = "returned"
                    /\ k.error = NoError
                    /\ Len(k.requests) = 2
                    /\ k.value = [k.log[2].resp.data EXCEPT !.inspection_output.anomalies =
                                     sanitizeAnomalies(@, k.imageWasSent)])

C4_Witness ==
    \E c \in CallIds :
        /\ Len(calls[c].log) = 2
        /\ IsResponse(calls[c].log[1], {502})
        /\ IsResponse(calls[c].log[2], {200})
        /\ ValidBody(calls[c].log[2].resp)
        /\ Len(calls[c].log[2].resp.data.inspection_output.anomalies) = 2
        /\ calls[c].pc = "returned"

\* C5 as stated: a 2xx JSON body without the summary object or without the
\* anomalies array is rejected with ApiError 500 and not retried.
C5_MalformedBodyRejected ==
    \A c \in CallIds :
        LET k == calls[c]
        IN  \A n \in 1..Len(k.log) :
              (k.log[n].kind = "response" /\ ok(k.log[n].resp.status) /\ k.log[n].resp.json
               /\ (\/ postflightFails(k.log[n].resp.data)
                   \/ "inspection_summary" \notin DOMAIN k.log[n].resp.data.inspection_output)) =>
                  /\ n = Len(k.log)
                  /\ Len(k.requests) = n
                  /\ k.pc = "threw"
                  /\ k.error.cls = "ApiError"
                  /\ k.error.status = 500

\* C6 as stated: a missing, empty or unreadable audio reference fails with
\* ApiError 400 and no /extract request is ever issued.
C6_BadAudioIsInvalidInput ==
    \A c \in CallIds :
        LET k == calls[c]
        IN  (k.pc # "idle" /\ (preflightFails(k.audioUri) \/ ~Readable(k.audioUri))) =>
              /\ k.requests = <<>>
              /\ (Settled(k) => /\ k.pc = "threw"
                                /\ k.error.cls = "ApiError"
                                /\ k.error.status = 400)

\* C7 as stated: a submission that has been superseded by a later one for the
\* same item is cancelled, so when it settles late it changes neither the
\* stored result nor the stored error.
C7_SupersededSubmitLeavesNoTrace ==
    [][\A c \in CallIds :
          (/\ calls[c].pc \in {"returned", "threw"}
           /\ calls'[c].pc = "done"
           /\ \E d \in CallIds : d > c /\ calls[d].pc # "idle")
          => (result' = result /\ error' = error)]_vars

\* C8: an anomaly whose severity is outside {Critical, Moderate, Low} comes out
\* with severity Low and technician_review_required true, whatever review flag
\* it came in with.
C8_OutOfEnumSeverityCoerced ==
    sanPc = "returned" =>
        /\ Len(sanOut) = Len(sanIn)
        /\ \A n \in 1..Len(sanIn) :
              sanIn[n].severity \notin {"Critical", "Moderate", "Low"} =>
                  /\ sanOut[n].severity = "Low"
                  /\ sanOut[n].technician_review_required = TRUE

C8_Witness ==
    /\ sanPc = "returned"
    /\ \E n \in 1..Len(sanIn) :
          /\ sanIn[n].severity = "BOGUS"
          /\ ~sanIn[n].technician_review_required
          /\ sanOut[n].severity = "Low"
    /\ \E n \in 1..Len(sanIn) : sanIn[n].severity = "critical"

\* C9: with no image submitted every anomaly comes out with evidence_backed
\* false; {severity BOGUS, evidence_backed true} with no image becomes
\* {severity Low, evidence_backed false, technician_review_required true}.
C9_NoImageNoEvidence ==
    (sanPc = "returned" /\ ~sanImg) =>
        /\ Len(sanOut) = Len(sanIn)
        /\ \A n \in 1..Len(sanIn) :
              /\ sanOut[n].evidence_backed = FALSE
              /\ (sanIn[n].severity = "BOGUS" /\ sanIn[n].evidence_backed) =>
                    sanOut[n] = [sanIn[n] EXCEPT !.severity = "Low",
                                                 !.evidence_backed = FALSE,
                                                 !.technician_review_required = TRUE]

C9_Witness ==
    /\ sanPc = "returned"
    /\ ~sanImg
    /\ Len(sanIn) = 1
    /\ sanIn[1].severity = "BOGUS"
    /\ sanIn[1].evidence_backed
    /\ ~sanIn[1].technician_review_required
    /\ sanOut[1].severity = "Low"
    /\ ~sanOut[1].evidence_backed
    /\ sanOut[1].technician_review_required

\* C10: every response runInspection returns, on the first attempt or on the
\* retry, has only enum severities, and evidence_backed = false throughout
\* when the call carried no image.
C10_ReturnedResponseSanitized ==
    \A c \in CallIds :
        LET k == calls[c]
        IN  k.pc = "returned" =>
              \A n \in 1..Len(k.value.inspection_output.anomalies) :
                  LET a == k.value.inspection_output.anomalies[n]
                  IN  /\ a.severity \in VALID_SEVERITIES
                      /\ (~Truthy(k.imageUri) => a.evidence_backed = FALSE)

C10_Witness ==
    \E c \in CallIds :
        LET k == calls[c]
        IN  /\ k.pc = "returned"
            /\ Len(k.log) = 2
            /\ ~Truthy(k.imageUri)
            /\ \E n \in 1..Len(k.log[2].resp.data.inspection_output.anomalies) :
                  LET a == k.log[2].resp.data.inspection_output.anomalies[n]
                  IN  a.severity = "BOGUS" /\ a.evidence_backed

C12_SanitizeNeverThrows == sanPc # "threw"

\* C13: sanitizing is idempotent: sanitizing the returned array again with
\* the same imageWasSubmitted gives the same array.
C13_SanitizeIdempotent ==
    sanPc = "returned" =>
        /\ ~sanitizeThrows(sanOut)
        /\ sanitizeAnomalies(sanOut, sanImg) = sanOut

C13_Witness ==
    /\ sanPc = "returned"
    /\ sanImg
    /\ Len(sanIn) = 2
    /\ sanIn[1].severity = "BOGUS"
    /\ sanIn[1].evidence_backed
    /\ ~sanIn[1].technician_review_required
    /\ sanOut # sanIn
    /\ sanitizeAnomalies(sanOut, sanImg) = sanOut

\* the anomalies of one stored AI context, whichever schema it has
anomaliesOf(ctx) ==
    LET output == IF "inspection_output" \in DOMAIN ctx THEN ctx.inspection_output ELSE ctx
    IN  IF "anomalies" \in DOMAIN output THEN output.anomalies
        ELSE IF "context_entries" \in DOMAIN ctx THEN ctx.context_entries
        ELSE <<>>

AnomalySet(ctx) == {anomaliesOf(ctx)[n] : n \in 1..Len(anomaliesOf(ctx))}

Flag(obj, key) == key \in DOMAIN obj /\ obj[key] = TRUE

IsCritical(a) == a.severity \in {"Critical", "CRITICAL"}
IsModerate(a) == a.severity \in {"Moderate", "WARNING"}

\* the AI contexts currently stored in the item states
StoredContexts(states) ==
    {aiContextOf(states[id]) : id \in {i \in ItemIds : states[i] # NoItem}} \ {NULL}

Rendered == shown # NotRendered

\* C14: preliminaryStatus is the maximum (STOP > CAUTION > GO) over the stored
\* items of the status derived from the item's anomalies (STOP with a Critical
\* anomaly, CAUTION with a Moderate and no Critical one, GO otherwise); one
\* item with a Critical anomaly and one with none give STOP with the
\* critical override raised.
C14_StatusDerivedFromAnomalies ==
    Rendered =>
        LET ctxs == StoredContexts(itemStates)
            anyCritical == \E c \in ctxs : \E a \in AnomalySet(c) : IsCritical(a)
            anyModerate == \E c \in ctxs : \E a \in AnomalySet(c) : IsModerate(a)
        IN  /\ shown.preliminaryStatus =
                   IF anyCritical THEN "STOP" ELSE IF anyModerate THEN "CAUTION" ELSE "GO"
            /\ anyCritical => shown.globalSafetyOverride

\* C15: the critical override is raised exactly when some anomaly of some
\* stored item is Critical or carries the global-safety-override flag.
C15_OverrideIffCriticalOrFlag ==
    Rendered =>
        shown.globalSafetyOverride =
            \E c \in StoredContexts(itemStates) : \E a \in AnomalySet(c) :
                IsCritical(a) \/ Flag(a, "is_global_safety_override")

\* C16: the aggregate review flag is the OR over the stored items of the
\* item's review flag (context-level or on an anomaly) and of any
\* segment-mismatch flag.
C16_ReviewIsOrOfFlags ==
    Rendered =>
        shown.technicianReview =
            \E c \in StoredContexts(itemStates) :
                \/ Flag(c, "technician_review_flag")
                \/ \E a \in AnomalySet(c) :
                      Flag(a, "technician_review_required") \/ Flag(a, "segment_mismatch_flag")

Rank(status) == CASE status = "STOP" -> 2 [] status = "CAUTION" -> 1 [] OTHER -> 0

\* the item states before the item was added
Without(states, id) == [states EXCEPT ![id] = NoItem]

\* C17: adding an item to the stored set never lowers preliminaryStatus in the
\* order STOP > CAUTION > GO: the status rolled up without any one stored item
\* is at most the status rolled up with it.
C17_AddingNeverLowersStatus ==
    Rendered =>
        \A id \in ItemIds :
            itemStates[id] # NoItem =>
                Rank(rollUp(Without(itemStates, id), ItemOrder).preliminaryStatus)
                    <= Rank(shown.preliminaryStatus)

C17_Witness ==
    /\ Rendered
    /\ shown.preliminaryStatus = "STOP"
    /\ \E id \in ItemIds :
          /\ itemStates[id] # NoItem
          /\ rollUp(Without(itemStates, id), ItemOrder).preliminaryStatus = "CAUTION"
    /\ \E id \in ItemIds :
          /\ itemStates[id] # NoItem
          /\ aiContextOf(itemStates[id]) # NULL
          /\ "preliminary_status" \in DOMAIN aiContextOf(itemStates[id])
          /\ aiContextOf(itemStates[id]).preliminary_status = "GO"
          /\ id = ItemOrder[MaxItems]

Verdict(r) ==
    [preliminaryStatus |-> r.preliminaryStatus,
     globalSafetyOverride |-> r.globalSafetyOverride,
     technicianReview |-> r.technicianReview,
     hasAiContext |-> r.hasAiContext]

\* every order in which the items can be visited
ItemOrders ==
    {o \in [1..MaxItems -> ItemIds] : \A a, b \in 1..MaxItems : a # b => o[a] # o[b]}

\* C18: the aggregate verdict is order-independent and idempotent: rolling
\* the stored items up in any order, or rolling them up a second time on top
\* of the first pass, gives the verdict that was rendered.
C18_OrderIndependentIdempotent ==
    Rendered =>
        /\ \A o \in ItemOrders : Verdict(rollUp(itemStates, o)) = Verdict(shown)
        /\ Verdict(forEachItem(itemStates, ItemOrder, shown)) = Verdict(shown)

C18_Witness ==
    /\ Rendered
    /\ \E a, b \in ItemIds :
          /\ itemStates[a] # NoItem /\ itemStates[b] # NoItem
          /\ Len(shown.inspectionItems) >= 2
          /\ shown.inspectionItems[1].id = a
          /\ shown.inspectionItems[1].aiPreliminaryStatus = "STOP"
          /\ shown.inspectionItems[2].id = b
          /\ shown.inspectionItems[2].aiPreliminaryStatus = "CAUTION"
    /\ shown.preliminaryStatus = "STOP"
    /\ \E o \in ItemOrders :
          /\ rollUp(itemStates, o).inspectionItems # shown.inspectionItems
          /\ Verdict(rollUp(itemStates, o)) = Verdict(shown)

C20_TransportFailureNotRetried ==
    \A c \in CallIds :
        LET k == calls[c]
        IN  \A n \in 1..Len(k.log) :
              k.log[n].kind = "network" =>
                  /\ n = Len(k.log)
                  /\ Len(k.requests) = n
                  /\ k.pc = "threw"
                  /\ k.error.cls # "ApiError"
                  /\ k.error = JsError("TypeError", "Network request failed")
                  /\ k.timers = 0

C20_Witness ==
    \E c \in CallIds :
        /\ Len(calls[c].log) = 1
        /\ calls[c].log[1].kind = "network"
        /\ Len(calls[c].requests) = 1
        /\ calls[c].pc = "threw"
        /\ calls[c].error.cls = "TypeError"

\* the failure class of a call that threw, by what happened to it
FailureClass(k) ==
    IF Len(k.requests) = 0 THEN "InvalidInput"
    ELSE LET ev == k.log[Len(k.log)]
         IN  CASE ev.kind = "timeout" -> "Timeout"
               [] ev.kind = "network" -> "Transport"
               [] ev.kind = "response" /\ ev.resp.status \in {502, 504} -> "Transient"
               [] ev.kind = "response" /\ ok(ev.resp.status) -> "ServerContractViolation"
               [] OTHER -> "Terminal"

\* C21: errors raised for failures of different classes (InvalidInput,
\* Timeout, Transient, Transport, ServerContractViolation, Terminal) are
\* distinguishable: two calls that failed in different classes never hold
\* the same error (same class name, status and message).
C21_FailureClassesDistinguishable ==
    \A c, d \in CallIds :
        (calls[c].pc = "threw" /\ calls[d].pc = "threw"
         /\ FailureClass(calls[c]) # FailureClass(calls[d])) =>
            calls[c].error # calls[d].error

\* C22: the timeout handle of fetchWithTimeout is released on every exit
\* path: exactly one handle is registered while a request is in flight and
\* none at any other time, after a success, a failure or a timeout, on the
\* first attempt or on the retry.
C22_TimerReleasedOnEveryPath ==
    \A c \in CallIds :
        calls[c].timers = IF calls[c].pc = "fetch" THEN 1 ELSE 0

C22_Witness ==
    \E c \in CallIds :
        /\ Len(calls[c].log) = 2
        /\ calls[c].log[1].kind = "timeout"
        /\ calls[c].log[2].kind = "network"
        /\ calls[c].pc = "threw"
        /\ calls[c].timers = 0

\* C24: every request sent to /extract has a non-empty audio_b64 and the
\* category "auto", carries image_b64 exactly when an image was supplied and
\* job_id exactly when a job id was supplied, and the retry repeats the body
\* of the first attempt.
C24_RequestBodyWellFormed ==
    \A c \in CallIds :
        LET k == calls[c]
        IN  \A n \in 1..Len(k.requests) :
              LET body == k.requests[n]
              IN  /\ "audio_b64" \in DOMAIN body
                  /\ body.audio_b64 # <<>>
                  /\ body.category = "auto"
                  /\ ("image_b64" \in DOMAIN body) = Truthy(k.imageUri)
                  /\ ("job_id" \in DOMAIN body) = Truthy(k.jobId)
                  /\ body = k.requests[1]

\* runInspection has not settled yet / submit has not resumed yet
InFlight(c) == calls[c].pc \in {"audio", "image", "fetch"}
Unsettled(c) == calls[c].pc \in {"audio", "image", "fetch", "returned", "threw"}

\* C27: isLoading is true exactly while a call started by submit has not
\* settled: it is never false while a submitted call is in flight, and never
\* true once every submitted call has settled.
C27_LoadingIffCallPending ==
    /\ (\E c \in CallIds : InFlight(c)) => isLoading
    /\ isLoading => \E c \in CallIds : Unsettled(c)

\* C30: once the hook is back in its initial state (result and error null,
\* isLoading false, hence hasCritical false) it stays there until the next
\* submit, whatever settles in the meantime.
C30_ResetStaysUntilNextSubmit ==
    [][(/\ result = NULL /\ error = NOMSG /\ ~isLoading
        /\ \A c \in CallIds : calls[c].pc = "idle" => calls'[c].pc = "idle")
       => (result' = NULL /\ error' = NOMSG /\ ~isLoading' /\ ~hasCritical')]_vars

\* C28: sanitizeAnomalies changes nothing beyond its two rules: an enum
\* severity and the review flag beside it are kept, a review flag that was
\* true stays true, evidence_backed is kept when an image was submitted, and
\* every other field is returned unchanged.
C28_SanitizeFrame ==
    sanPc = "returned" =>
        \A n \in 1..Len(sanIn) :
            LET a == sanIn[n]
                b == sanOut[n]
            IN  /\ DOMAIN b = DOMAIN a
                /\ a.severity \in VALID_SEVERITIES =>
                       /\ b.severity = a.severity
                       /\ b.technician_review_required = a.technician_review_required
                /\ a.technician_review_required => b.technician_review_required
                /\ sanImg => b.evidence_backed = a.evidence_backed
                /\ b.is_global_safety_override = a.is_global_safety_override
                /\ b.segment_mismatch_flag = a.segment_mismatch_flag
                /\ (a.severity \in VALID_SEVERITIES /\ sanImg) => b = a

C28_Witness ==
    /\ sanPc = "returned"
    /\ sanImg
    /\ Len(sanIn) = 2
    /\ sanIn[1].severity = "Critical"
    /\ sanIn[1].technician_review_required
    /\ sanIn[1].evidence_backed
    /\ sanIn[2].severity = "Moderate"
    /\ ~sanIn[2].technician_review_required
    /\ sanIn[2].segment_mismatch_flag
    /\ sanOut = sanIn

\* the (item, uri) entries of a session in a ledger
EntriesOf(written, sessionId) ==
    {[itemId |-> e[2], uri |-> written[e]] :
        e \in {x \in DOMAIN written : x[1] = sessionId /\ written[x] # NoUri}}

\* C23: a bulk read that interleaves with writes returns the session's entries
\* as they stood at one instant between its start and its return
C23_ReadIsSnapshot ==
    reader.pc = "done" =>
        \E n \in 1..Len(reader.seen) :
            reader.out = EntriesOf(reader.seen[n], reader.sessionId)

\* C29: distinct (session, item) pairs have distinct keys, a finished getAll(s)
\* holds exactly what was last put under s, and between operations the store
\* holds for every (session, item) what was last put and not cleared
C29_ScopedBySession ==
    /\ \A e1, e2 \in {e \in DOMAIN ledger : ledger[e] # NoUri} :
          e1 # e2 => buildKey(e1[1], e1[2]) # buildKey(e2[1], e2[2])
    /\ reader.pc = "done" =>
          reader.out = EntriesOf(reader.seen[Len(reader.seen)], reader.sessionId)
    /\ StoreQuiet =>
          \A e \in DOMAIN ledger : storage[buildKey(e[1], e[2])] = ledger[e]

\* a probe answer that counts as healthy: a 2xx response whose JSON body has
\* status "ok" and adapter_available true
AnswersHealthy(resp) ==
    /\ ok(resp.status) /\ resp.json /\ resp.data # NULL
    /\ "status" \in DOMAIN resp.data /\ resp.data.status = "ok"
    /\ "adapter_available" \in DOMAIN resp.data /\ resp.data.adapter_available = TRUE

ProbeSettles(p) == health.probes[p].pc # "done" /\ health'.probes[p].pc = "done"

\* C25: when a probe settles, isHealthy becomes true exactly when the probe
\* got a response with status "ok" and adapter_available true; a failed,
\* timed-out or incomplete probe sets it to false
C25_HealthyIffBothConditions ==
    [][\A p \in ProbeIds :
          ProbeSettles(p) =>
              health'.isHealthy =
                  (health.probes[p].pc = "body" /\ AnswersHealthy(health.probes[p].resp))]_vars

C25_Witness ==
    /\ health.isHealthy
    /\ \E p, q \in ProbeIds :
          health.probes[p].pc = "done" /\ ~health.probes[p].healthy
          /\ health.probes[q].pc = "done" /\ health.probes[q].healthy

\* C26: while mounted, if a probe has completed and isHealthy is false the
\* polling timer is registered; the timer is gone while mounted only after a
\* healthy probe; after unmount no timer remains
C26_PollsWhileUnhealthy ==
    /\ (health.mounted = "yes" /\ ~health.isHealthy
          /\ \E p \in ProbeIds : health.probes[p].pc = "done") => health.timer
    /\ (health.mounted = "yes" /\ ~health.timer) =>
          \E p \in ProbeIds : health.probes[p].pc = "done" /\ health.probes[p].healthy
    /\ health.mounted = "gone" => ~health.timer

====
